---- MODULE Spec2Model ----
(***************************************************************************)
(* Model of the work-session timer: the TimerManager state machine         *)
(* (timerManager.ts), its periodic tick callback and the notifications it  *)
(* emits; and of the StateManager (stateManager.ts): the persisted record,  *)
(* the wall clock and the reconciliation done by restoreState.             *)
(***************************************************************************)
EXTENDS Integers, Sequences, FiniteSets, TLC

\* Largest duration (in minutes) handed to the constructor / updateDurations.
MaxMinutes == 2

Durations == 1..MaxMinutes

\* "* 60, // convert to seconds"
SecondsPerMinute == 60

\* enum TimerState
IDLE == "idle"
WORK_SESSION == "work_session"
REST_PERIOD == "rest_period"
PAUSED == "paused"

TimerState == {IDLE, WORK_SESSION, REST_PERIOD, PAUSED}

\* An optional Date field is either undefined or holds a Date (truthy).
Undefined == "undefined"
NewDate == "date"

\* intervalId: null or the handle returned by setInterval.
Null == "null"
Handle == "handle"

Max(a, b) == IF a > b THEN a ELSE b

\* restoreState() has not returned since the clock last moved.
NotRestored == [notRestored |-> TRUE]

\* globalState.get(STATE_KEY) finds nothing stored
NoRecord == [undefined |-> TRUE]

\* restoreState() returned null
NullContext == [null |-> TRUE]

\* updateStatistics() was not the last StateManager call.
NoStatistics == [none |-> TRUE]

\* No extension owns the engine and the storage.
NoHost == [none |-> TRUE]

\* No status bar item is followed.
NoStatusBar == [statusBar |-> "none"]

\* The caller holds no object returned by getCurrentState().
NoSnapshot == [snapshot |-> "none"]

\* formatTime() has not been called.
NotFormatted == [formatted |-> FALSE]

\* What is registered with on() for a notification: nothing, a listener that
\* returns, one that throws, (for 'timerComplete') one that calls startRest()
\* when a work session has completed, and the handler of the extension.
NoListener == "none"
Returns == "returns"
Throws == "throws"
StartsRest == "starts rest"
Extension == "extension"

\* The listeners after removeAllListeners().
NoListeners == [stateChange |-> NoListener, timerComplete |-> NoListener]

\* Listeners that only read the notification, on both notifications.
ReturningListeners == [stateChange |-> Returns, timerComplete |-> Returns]

\* The listeners setupEventHandlers() of the extension registers.
ExtensionListeners == [stateChange |-> Extension, timerComplete |-> Extension]

VARIABLES
    context,        \* TimerManager.context : TimerContext
    intervalId,     \* TimerManager.intervalId
    liveIntervals,  \* number of interval callbacks scheduled in the host
    events,         \* notifications emitted by the last operation, in order
    lastOp,         \* name of the last operation invoked
    pre,            \* engine state right before the last operation
    run,            \* the current run of consecutive ticks
    beforePause,    \* phase and remaining time at the last effective pause
    pausedFrom,     \* while paused: the phase the engine was paused from
    listeners,      \* the listener registered for each notification
    thrown,         \* whether the last operation threw to its caller
    globalState,    \* the value stored under StateManager.STATE_KEY
    now,            \* the wall clock, in milliseconds
    lastCall,       \* name of the last StateManager call
    restored,       \* what the last StateManager call returned
    savedContext,   \* the TimerContext handed to the last saveState()
    statsArgs,      \* the arguments of the last updateStatistics()
    host,           \* WorkSessionManagerExtension: its fields, the settings it
                    \* reads, its pending promises and timeouts
    statusBar,      \* StatusBarController: the status bar item, the context it
                    \* was last handed, its pending timeouts
    held,           \* the object the caller's reference from getCurrentState()
                    \* points at
    snapshot,       \* the object getCurrentState() created last
    formatSeconds,  \* the argument of formatTime()
    formatted       \* what the two formatTime() returned for it

engineVars == <<context, intervalId, liveIntervals, events, lastOp, pre, run,
                beforePause, pausedFrom, listeners, thrown>>

storeVars == <<globalState, now, lastCall, restored, savedContext, statsArgs>>

hostVars == <<host, statusBar>>

callerVars == <<held, snapshot, formatSeconds, formatted>>

vars == <<engineVars, storeVars, hostVars, callerVars>>

\* The engine as the methods see it: the fields, the registered listeners,
\* the notifications emitted so far by the operation in progress and whether
\* a listener has thrown in it.
Engine == [context |-> context, intervalId |-> intervalId,
           liveIntervals |-> liveIntervals, events |-> <<>>,
           listeners |-> listeners, thrown |-> FALSE]

\* Nobody has called getCurrentState() or formatTime().
CallerInit ==
    /\ held = "none"
    /\ snapshot = NoSnapshot
    /\ formatSeconds = 0
    /\ formatted = NotFormatted

\* constructor(sessionDuration, restDuration)
NewContext(sessionDuration, restDuration) ==
    [currentState |-> IDLE,
     remainingTime |-> 0,
     sessionDuration |-> sessionDuration,
     restDuration |-> restDuration,
     sessionStartTime |-> Undefined,
     pausedAt |-> Undefined]

\* private stopTimer()
stopTimer(e) ==
    IF e.intervalId # Null
    THEN [e EXCEPT !.liveIntervals = @ - 1, !.intervalId = Null]
    ELSE e

\* private startTimer()
startTimer(e) ==
    LET cleared == IF e.intervalId # Null
                   THEN [e EXCEPT !.liveIntervals = @ - 1]
                   ELSE e
    IN [cleared EXCEPT !.liveIntervals = @ + 1, !.intervalId = Handle]

TimerEventData(e, isTransition) ==
    [state |-> e.context.currentState,
     remainingTime |-> e.context.remainingTime,
     isTransition |-> isTransition]

Notification(type, data) ==
    [type |-> type, state |-> data.state,
     remainingTime |-> data.remainingTime, isTransition |-> data.isTransition]

\* emitStateChange delivering the completion notification first
emitStateChange_CompleteFirst(e, isTransition) ==
    LET eventData == TimerEventData(e, isTransition)
        stateChange == <<Notification("stateChange", eventData)>>
        timerComplete == IF isTransition
                         THEN <<Notification("timerComplete", eventData)>>
                         ELSE <<>>
    IN [e EXCEPT !.events = @ \o timerComplete \o stateChange]

\* persistedState in StateManager.saveState, written at `lastActiveTime`
PersistedState(timerContext, sessionCount, totalWorkTime, lastActiveTime) ==
    [currentState |-> timerContext.currentState,
     remainingTime |-> timerContext.remainingTime,
     sessionStartTime |-> timerContext.sessionStartTime,
     lastActiveTime |-> lastActiveTime,
     sessionCount |-> sessionCount,
     totalWorkTime |-> totalWorkTime,
     sessionDuration |-> timerContext.sessionDuration,
     restDuration |-> timerContext.restDuration]

(***************************************************************************)
(* StatusBarController: the item in the status bar as far as its text and  *)
(* its click command go, with every part of the text shown (the defaults   *)
(* of showStatusDot, showCountdown and showPausePlayButton).  A text is    *)
(* the sequence of its parts, a countdown the sequence of its characters.  *)
(***************************************************************************)

Digits == <<"0", "1", "2", "3", "4", "5", "6", "7", "8", "9">>

\* Number.prototype.toString() of a non-negative integer
RECURSIVE toString(_)
toString(number) ==
    IF number < 10
    THEN <<Digits[number + 1]>>
    ELSE Append(toString(number \div 10), Digits[(number % 10) + 1])

\* String.prototype.padStart(targetLength, padString), padString one character
RECURSIVE padStart(_, _, _)
padStart(string, targetLength, padString) ==
    IF Len(string) >= targetLength
    THEN string
    ELSE padStart(<<padString>> \o string, targetLength, padString)

\* private formatTime(seconds) of the StatusBarController, seconds >= 0
StatusBar_formatTime(secs) ==
    LET minutes == secs \div 60
        remainingSeconds == secs % 60
    IN padStart(toString(minutes), 2, "0") \o <<":">>
          \o padStart(toString(remainingSeconds), 2, "0")

\* The durations of the notifications, in milliseconds.
NotificationMs == 2000
CompletionNotificationMs == 5000

\* private showIdleState()
StatusBar_showIdleState(bar) ==
    [bar EXCEPT !.item = [text |-> <<"white dot", "Ready", "play button">>,
                          command |-> "workSessionManager.startSession"]]

\* private showWorkSessionState()
StatusBar_showWorkSessionState(bar) ==
    [bar EXCEPT !.item =
        [text |-> <<"green dot">>
                     \o StatusBar_formatTime(bar.currentContext.remainingTime)
                     \o <<"pause button">>,
         command |-> "workSessionManager.pause"]]

\* private showRestPeriodState()
StatusBar_showRestPeriodState(bar) ==
    [bar EXCEPT !.item =
        [text |-> <<"blue dot">>
                     \o StatusBar_formatTime(bar.currentContext.remainingTime)
                     \o <<"pause button">>,
         command |-> "workSessionManager.pause"]]

\* private showPausedState()
StatusBar_showPausedState(bar) ==
    [bar EXCEPT !.item =
        [text |-> <<"yellow dot">>
                     \o StatusBar_formatTime(bar.currentContext.remainingTime)
                     \o <<"play button">>,
         command |-> "workSessionManager.resume"]]

\* public updateDisplay(context?): NullContext is the call without argument
StatusBar_updateDisplay(bar, timerContext) ==
    LET cached == IF timerContext # NullContext
                  THEN [bar EXCEPT !.currentContext = timerContext]
                  ELSE bar
    IN IF cached.currentContext = NullContext
       THEN StatusBar_showIdleState(cached)
       ELSE CASE cached.currentContext.currentState = IDLE ->
                    StatusBar_showIdleState(cached)
              [] cached.currentContext.currentState = WORK_SESSION ->
                    StatusBar_showWorkSessionState(cached)
              [] cached.currentContext.currentState = REST_PERIOD ->
                    StatusBar_showRestPeriodState(cached)
              [] cached.currentContext.currentState = PAUSED ->
                    StatusBar_showPausedState(cached)
              [] OTHER -> cached

\* public showTemporaryMessage(message, durationMs): the text and the
\* command of the item are kept by the callback that is to put them back.
StatusBar_showTemporaryMessage(bar, message, durationMs) ==
    [bar EXCEPT !.pending = Append(@, [originalText |-> bar.item.text,
                                       originalCommand |-> bar.item.command,
                                       durationMs |-> durationMs,
                                       ticks |-> 0]),
                !.item = [text |-> <<message>>, command |-> Undefined]]

\* The constructor of the StatusBarController.
NewStatusBar ==
    StatusBar_updateDisplay([item |-> [text |-> <<>>, command |-> Undefined],
                             currentContext |-> NullContext,
                             pending |-> <<>>],
                            NullContext)

\* The extension calls its statusBarController, where the item is followed.
\* updateDisplay(this.timerManager.getCurrentState())
Displayed(w) ==
    [w EXCEPT !.statusBar = IF @ = NoStatusBar
                            THEN @
                            ELSE StatusBar_updateDisplay(@, w.context)]

\* public forceUpdate(): updateDisplay()
StatusBar_forceUpdate(w) ==
    [w EXCEPT !.statusBar = IF @ = NoStatusBar
                            THEN @
                            ELSE StatusBar_updateDisplay(@, NullContext)]

\* one of the notifications of the StatusBarController
Notified(w, message, durationMs) ==
    [w EXCEPT !.statusBar =
        IF @ = NoStatusBar
        THEN @
        ELSE StatusBar_showTemporaryMessage(@, message, durationMs)]

\* private saveState() of the extension; w is the engine together with the
\* storage, the clock and the extension that owns them.  The write into
\* globalState happens inside the call, before its first await.
Extension_saveState(w) ==
    [w EXCEPT !.globalState =
        PersistedState(w.context, w.host.sessionCount,
                       w.host.totalWorkTime, w.now)]

\* private handleTimerStateChange(eventData) of the extension
Extension_handleTimerStateChange(w) ==
    Extension_saveState(Displayed(w))

\* handleTimerCompletion of the extension counting every completion
Extension_handleTimerCompletion_CountsRest(w, eventData) ==
    LET config == w.host.config
        counted == [w EXCEPT !.host.sessionCount = @ + 1,
                             !.host.totalWorkTime =
                                 @ + config.sessionDuration * SecondsPerMinute]
        autoStart ==
            IF eventData.state = WORK_SESSION THEN config.autoStartRest
            ELSE IF eventData.state = REST_PERIOD THEN config.autoStartWork
            ELSE FALSE
    IN [counted EXCEPT !.host.awaiting =
           Append(@, [state |-> eventData.state, autoStart |-> autoStart])]

\* private async handleTimerCompletion(eventData) of the extension, up to its
\* first await: the rest of it runs when the sound has been played.
Extension_handleTimerCompletion(w, eventData) ==
    LET config == w.host.config
        counted ==
            IF eventData.state = WORK_SESSION
            THEN [w EXCEPT !.host.sessionCount = @ + 1,
                           !.host.totalWorkTime =
                               @ + config.sessionDuration * SecondsPerMinute]
            ELSE w
        autoStart ==
            IF eventData.state = WORK_SESSION THEN config.autoStartRest
            ELSE IF eventData.state = REST_PERIOD THEN config.autoStartWork
            ELSE FALSE
    IN [counted EXCEPT !.host.awaiting =
           Append(@, [state |-> eventData.state, autoStart |-> autoStart])]

\* this.emit('stateChange', eventData): the listener runs inside the call,
\* and what it throws leaves emit() towards the caller.
emitStateChangeEvent(e, eventData) ==
    LET emitted == [e EXCEPT !.events =
                       Append(@, Notification("stateChange", eventData))]
    IN CASE e.listeners.stateChange = Throws ->
              [emitted EXCEPT !.thrown = TRUE]
         [] e.listeners.stateChange = Extension ->
              Extension_handleTimerStateChange(emitted)
         [] OTHER -> emitted

\* public startRest(), on the engine as the running operation has left it
startRestOn(e) ==
    LET e1 == stopTimer(e)
        e2 == [e1 EXCEPT !.context =
                  [@ EXCEPT !.currentState = REST_PERIOD,
                            !.remainingTime = e1.context.restDuration * SecondsPerMinute,
                            !.sessionStartTime = NewDate,
                            !.pausedAt = Undefined]]
        e3 == startTimer(e2)
    IN emitStateChangeEvent(e3, TimerEventData(e3, FALSE))

\* this.emit('timerComplete', eventData)
emitTimerCompleteEvent(e, eventData) ==
    LET emitted == [e EXCEPT !.events =
                       Append(@, Notification("timerComplete", eventData))]
    IN CASE e.listeners.timerComplete = Throws ->
              [emitted EXCEPT !.thrown = TRUE]
         [] e.listeners.timerComplete = StartsRest
               /\ eventData.state = WORK_SESSION ->
              startRestOn(emitted)
         [] e.listeners.timerComplete = Extension ->
              Extension_handleTimerCompletion(emitted, eventData)
         [] OTHER -> emitted

\* private emitStateChange(isTransition = false)
emitStateChange(e, isTransition) ==
    LET eventData == TimerEventData(e, isTransition)
        e1 == emitStateChangeEvent(e, eventData)
    IN IF isTransition /\ ~e1.thrown
       THEN emitTimerCompleteEvent(e1, eventData)
       ELSE e1

\* private handleTimerCompletion().  A listener that throws ends the method
\* at the emit it was called from.
handleTimerCompletion(e) ==
    LET currentState == e.context.currentState
        e1 == stopTimer(e)
        e2 == IF currentState \in {WORK_SESSION, REST_PERIOD}
              THEN LET emitted == emitStateChange(e1, TRUE)
                   IN IF emitted.thrown
                      THEN emitted
                      ELSE [emitted EXCEPT !.context =
                               [@ EXCEPT !.currentState = IDLE,
                                         !.remainingTime = 0,
                                         !.sessionStartTime = Undefined]]
              ELSE e1
    IN IF e2.thrown THEN e2 ELSE emitStateChange(e2, FALSE)

\* The tags of the completion notifications among a sequence of notifications.
RECURSIVE Completions(_)
Completions(evs) ==
    IF evs = <<>> THEN <<>>
    ELSE (IF Head(evs).type = "timerComplete" THEN <<Head(evs).state>> ELSE <<>>)
         \o Completions(Tail(evs))

Snapshot == [context |-> context, intervalId |-> intervalId,
             liveIntervals |-> liveIntervals, lastOp |-> lastOp]

NoPause == [phase |-> "none", remaining |-> 0]

\* The operation `op` returns leaving the engine as `e`.
Returned(op, e) ==
    /\ context' = e.context
    /\ intervalId' = e.intervalId
    /\ liveIntervals' = e.liveIntervals
    /\ events' = e.events
    /\ listeners' = e.listeners
    /\ thrown' = e.thrown
    /\ lastOp' = op
    /\ pre' = Snapshot
    /\ run' = IF op = "tick"
              THEN [run EXCEPT !.ticks = @ + 1,
                               !.completions = @ \o Completions(e.events)]
              ELSE [phase |-> e.context.currentState,
                    remaining |-> e.context.remainingTime,
                    ticks |-> 0,
                    completions |-> <<>>]
    /\ beforePause' =
          CASE op = "pause" /\ e.context # context ->
                   [phase |-> context.currentState,
                    remaining |-> context.remainingTime]
            [] op \in {"pause", "resume"} -> beforePause
            [] OTHER -> NoPause
    /\ pausedFrom' =
          IF e.context.currentState # PAUSED THEN "none"
          ELSE IF context.currentState # PAUSED THEN context.currentState
          ELSE pausedFrom

\* The operation `op`, called on the engine alone, returns leaving it as `e`.
Commit(op, e) ==
    /\ Returned(op, e)
    /\ UNCHANGED storeVars
    /\ UNCHANGED hostVars
    /\ UNCHANGED callerVars

Init ==
    /\ \E sessionDuration \in Durations, restDuration \in Durations :
          context = NewContext(sessionDuration, restDuration)
    /\ intervalId = Null
    /\ liveIntervals = 0
    /\ events = <<>>
    /\ lastOp = "constructor"
    /\ pre = [context |-> context, intervalId |-> Null,
              liveIntervals |-> 0, lastOp |-> "none"]
    /\ run = [phase |-> IDLE, remaining |-> 0, ticks |-> 0, completions |-> <<>>]
    /\ beforePause = NoPause
    /\ pausedFrom = "none"
    /\ listeners = ReturningListeners
    /\ thrown = FALSE
    /\ globalState = NoRecord
    /\ now = 0
    /\ lastCall = "none"
    /\ restored = NotRestored
    /\ savedContext = NullContext
    /\ statsArgs = NoStatistics
    /\ host = NoHost
    /\ statusBar = NoStatusBar
    /\ CallerInit

\* startSession that forgets to clear pausedAt
startSession_KeepsPausedAt ==
    LET e1 == stopTimer(Engine)
        e2 == [e1 EXCEPT !.context =
                  [@ EXCEPT !.currentState = WORK_SESSION,
                            !.remainingTime = e1.context.sessionDuration * SecondsPerMinute,
                            !.sessionStartTime = NewDate]]
        e3 == startTimer(e2)
    IN Commit("startSession", emitStateChange(e3, FALSE))

\* public startSession(), on the engine e
startSessionOn(e) ==
    LET e1 == stopTimer(e)
        e2 == [e1 EXCEPT !.context =
                  [@ EXCEPT !.currentState = WORK_SESSION,
                            !.remainingTime = e1.context.sessionDuration * SecondsPerMinute,
                            !.sessionStartTime = NewDate,
                            !.pausedAt = Undefined]]
        e3 == startTimer(e2)
    IN emitStateChange(e3, FALSE)

\* public startSession()
startSession == Commit("startSession", startSessionOn(Engine))

\* public startRest()
startRest == Commit("startRest", startRestOn(Engine))

\* pause without the check of the current state
pause_Unguarded ==
    LET e1 == stopTimer(Engine)
        e2 == [e1 EXCEPT !.context =
                  [@ EXCEPT !.currentState = PAUSED, !.pausedAt = NewDate]]
    IN Commit("pause", emitStateChange(e2, FALSE))

\* public pause(), on the engine e
pauseOn(e) ==
    IF e.context.currentState \in {WORK_SESSION, REST_PERIOD}
    THEN LET e1 == stopTimer(e)
             e2 == [e1 EXCEPT !.context =
                       [@ EXCEPT !.currentState = PAUSED, !.pausedAt = NewDate]]
         IN emitStateChange(e2, FALSE)
    ELSE e

\* public pause()
pause == Commit("pause", pauseOn(Engine))

\* resume that leaves pausedAt in place
resume_KeepsPausedAt ==
    IF context.currentState = PAUSED /\ context.pausedAt # Undefined
    THEN LET previousState ==
                 IF context.remainingTime > 0
                 THEN (IF context.sessionStartTime # Undefined
                       THEN WORK_SESSION ELSE REST_PERIOD)
                 ELSE IDLE
             e1 == [Engine EXCEPT !.context =
                       [@ EXCEPT !.currentState = previousState]]
             e2 == IF previousState # IDLE THEN startTimer(e1) ELSE e1
         IN Commit("resume", emitStateChange(e2, FALSE))
    ELSE Commit("resume", Engine)

\* public resume(), on the engine e
resumeOn(e) ==
    IF e.context.currentState = PAUSED /\ e.context.pausedAt # Undefined
    THEN LET previousState ==
                 IF e.context.remainingTime > 0
                 THEN (IF e.context.sessionStartTime # Undefined
                       THEN WORK_SESSION ELSE REST_PERIOD)
                 ELSE IDLE
             e1 == [e EXCEPT !.context =
                       [@ EXCEPT !.currentState = previousState,
                                 !.pausedAt = Undefined]]
             e2 == IF previousState # IDLE THEN startTimer(e1) ELSE e1
         IN emitStateChange(e2, FALSE)
    ELSE e

\* public resume()
resume == Commit("resume", resumeOn(Engine))

\* reset that leaves the remaining time in place
reset_KeepsRemaining ==
    LET e1 == stopTimer(Engine)
        e2 == [e1 EXCEPT !.context =
                  [@ EXCEPT !.currentState = IDLE,
                            !.sessionStartTime = Undefined,
                            !.pausedAt = Undefined]]
    IN Commit("reset", emitStateChange(e2, FALSE))

\* reset that leaves the interval callback scheduled
reset_KeepsTimer ==
    LET e2 == [Engine EXCEPT !.context =
                  [@ EXCEPT !.currentState = IDLE,
                            !.remainingTime = 0,
                            !.sessionStartTime = Undefined,
                            !.pausedAt = Undefined]]
    IN Commit("reset", emitStateChange(e2, FALSE))

\* public reset(), on the engine e
resetOn(e) ==
    LET e1 == stopTimer(e)
        e2 == [e1 EXCEPT !.context =
                  [@ EXCEPT !.currentState = IDLE,
                            !.remainingTime = 0,
                            !.sessionStartTime = Undefined,
                            !.pausedAt = Undefined]]
    IN emitStateChange(e2, FALSE)

\* public reset()
reset == Commit("reset", resetOn(Engine))

\* remainingTime after a duration change that preserves the elapsed time
Rescale(oldDuration, newDuration, remainingTime) ==
    LET elapsedTime == (oldDuration * SecondsPerMinute) - remainingTime
        newTotalTime == newDuration * SecondsPerMinute
    IN Max(0, newTotalTime - elapsedTime)

\* public updateDurations(sessionDuration, restDuration), on the engine e
updateDurationsOn(e, sessionDuration, restDuration) ==
    LET oldSessionDuration == e.context.sessionDuration
        oldRestDuration == e.context.restDuration
        e1 == [e EXCEPT !.context =
                  [@ EXCEPT !.sessionDuration = sessionDuration,
                            !.restDuration = restDuration]]
        remainingTime == e.context.remainingTime
        workTime == Rescale(oldSessionDuration, sessionDuration, remainingTime)
        restTime == Rescale(oldRestDuration, restDuration, remainingTime)
        wasWorkSession == remainingTime > (oldRestDuration * SecondsPerMinute)
    IN CASE e.context.currentState = IDLE -> e1
         [] e.context.currentState = WORK_SESSION ->
              IF oldSessionDuration # sessionDuration
              THEN LET e2 == [e1 EXCEPT !.context.remainingTime = workTime]
                   IN IF workTime = 0
                      THEN handleTimerCompletion(e2)
                      ELSE emitStateChange(e2, FALSE)
              ELSE emitStateChange(e1, FALSE)
         [] e.context.currentState = REST_PERIOD ->
              IF oldRestDuration # restDuration
              THEN LET e2 == [e1 EXCEPT !.context.remainingTime = restTime]
                   IN IF restTime = 0
                      THEN handleTimerCompletion(e2)
                      ELSE emitStateChange(e2, FALSE)
              ELSE emitStateChange(e1, FALSE)
         [] e.context.currentState = PAUSED ->
              LET e2 == IF wasWorkSession /\ oldSessionDuration # sessionDuration
                        THEN [e1 EXCEPT !.context.remainingTime = workTime]
                        ELSE IF ~wasWorkSession /\ oldRestDuration # restDuration
                        THEN [e1 EXCEPT !.context.remainingTime = restTime]
                        ELSE e1
              IN emitStateChange(e2, FALSE)

\* public updateDurations(sessionDuration, restDuration)
updateDurations(sessionDuration, restDuration) ==
    Commit("updateDurations",
           updateDurationsOn(Engine, sessionDuration, restDuration))

\* tick that counts a second twice
tick_CountsTwice ==
    /\ liveIntervals > 0
    /\ IF context.remainingTime > 0
       THEN LET e1 == [Engine EXCEPT !.context.remainingTime = Max(0, @ - 2)]
            IN Commit("tick", emitStateChange(e1, FALSE))
       ELSE Commit("tick", handleTimerCompletion(Engine))

\* private tick(), on the engine e
tickOn(e) ==
    IF e.context.remainingTime > 0
    THEN LET e1 == [e EXCEPT !.context.remainingTime = @ - 1]
         IN emitStateChange(e1, FALSE)
    ELSE handleTimerCompletion(e)

\* private tick(), invoked by a scheduled interval callback
tick ==
    /\ liveIntervals > 0
    /\ Commit("tick", tickOn(Engine))

Next ==
    \/ startSession
    \/ startRest
    \/ pause
    \/ resume
    \/ reset
    \/ \E sessionDuration \in Durations, restDuration \in Durations :
          updateDurations(sessionDuration, restDuration)
    \/ tick

Spec == Init /\ [][Next]_vars

\* dispose that leaves the interval callback scheduled
dispose_KeepsTimer ==
    Commit("dispose", [Engine EXCEPT !.listeners = NoListeners])

\* public dispose(), on the engine e
disposeOn(e) ==
    LET e1 == stopTimer(e)
    IN [e1 EXCEPT !.listeners = NoListeners]

\* public dispose()
dispose == Commit("dispose", disposeOn(Engine))

\* The engine with its owner disposing of it, possibly more than once.
DisposeNext == Next \/ dispose

DisposeSpec == Init /\ [][DisposeNext]_vars

\* What the users of the engine register: the listeners of the extension,
\* which return; a 'stateChange' or a 'timerComplete' listener that throws;
\* the 'timerComplete' listener of the work-to-rest cycle test.
ListenerChoices ==
    {ReturningListeners,
     [stateChange |-> Throws, timerComplete |-> Returns],
     [stateChange |-> Returns, timerComplete |-> Throws],
     [stateChange |-> Returns, timerComplete |-> StartsRest]}

\* The engine after construction and the on() calls of its user.
ListenerInit ==
    /\ \E sessionDuration \in Durations, restDuration \in Durations :
          context = NewContext(sessionDuration, restDuration)
    /\ intervalId = Null
    /\ liveIntervals = 0
    /\ events = <<>>
    /\ lastOp = "constructor"
    /\ pre = [context |-> context, intervalId |-> Null,
              liveIntervals |-> 0, lastOp |-> "none"]
    /\ run = [phase |-> IDLE, remaining |-> 0, ticks |-> 0, completions |-> <<>>]
    /\ beforePause = NoPause
    /\ pausedFrom = "none"
    /\ listeners \in ListenerChoices
    /\ thrown = FALSE
    /\ globalState = NoRecord
    /\ now = 0
    /\ lastCall = "none"
    /\ restored = NotRestored
    /\ savedContext = NullContext
    /\ statsArgs = NoStatistics
    /\ host = NoHost
    /\ statusBar = NoStatusBar
    /\ CallerInit

ListenerSpec == ListenerInit /\ [][Next]_vars

TypeOK ==
    /\ context.currentState \in TimerState
    /\ context.remainingTime \in Nat
    /\ liveIntervals \in 0..1


Running == {WORK_SESSION, REST_PERIOD}

Ticking == intervalId # Null /\ liveIntervals = 1

Stopped == intervalId = Null /\ liveIntervals = 0

\* C1: a pause() issued while Working or Resting followed by the next
\* resume(), with no start/reset/updateDurations in between, returns the
\* engine to the phase that was active before the pause, with
\* remainingSeconds unchanged and ticking active again.
C1_ResumeRestoresPausedPhase ==
    (lastOp = "resume" /\ pre.context.currentState = PAUSED
        /\ beforePause.phase \in Running) =>
        /\ context.currentState = beforePause.phase
        /\ context.remainingTime = beforePause.remaining
        /\ Ticking

\* C2: from any phase startSession() leaves the engine Working with
\* remainingSeconds = sessionDuration*60 and startRest() leaves it Resting
\* with remainingSeconds = restDuration*60; pausedAt is cleared,
\* phaseStartedAt is set, the durations are untouched and exactly one tick
\* callback is running.
C2_StartSetsPhaseAndRemaining ==
    /\ lastOp = "startSession" =>
          /\ context.currentState = WORK_SESSION
          /\ context.remainingTime = pre.context.sessionDuration * 60
    /\ lastOp = "startRest" =>
          /\ context.currentState = REST_PERIOD
          /\ context.remainingTime = pre.context.restDuration * 60
    /\ lastOp \in {"startSession", "startRest"} =>
          /\ context.pausedAt = Undefined
          /\ context.sessionStartTime # Undefined
          /\ context.sessionDuration = pre.context.sessionDuration
          /\ context.restDuration = pre.context.restDuration
          /\ Ticking
          /\ Len(events) = 1

\* C2 witness: startRest() has replaced a running work countdown.
C2_Witness ==
    /\ lastOp = "startRest"
    /\ pre.context.currentState = WORK_SESSION
    /\ pre.liveIntervals = 1
    /\ pre.context.remainingTime < pre.context.sessionDuration * 60

\* C3: starting from Working with remainingSeconds = R, exactly R ticks leave
\* the engine Idle and have emitted exactly one completion notification,
\* tagged Working.
C3_RTicksComplete ==
    (run.phase = WORK_SESSION /\ run.remaining >= 1 /\ run.ticks = run.remaining) =>
        /\ context.currentState = IDLE
        /\ run.completions = <<WORK_SESSION>>

\* C4: starting from Working with remainingSeconds = R, n < R ticks decrease
\* remainingSeconds by exactly n, keep the phase Working and emit no
\* completion notification.
C4_TicksDecrementByOne ==
    (run.phase = WORK_SESSION /\ run.ticks < run.remaining) =>
        /\ context.remainingTime = run.remaining - run.ticks
        /\ context.currentState = WORK_SESSION
        /\ run.completions = <<>>

\* C4 witness: three ticks into a work session that has more than three
\* seconds left.
C4_Witness ==
    /\ lastOp = "tick"
    /\ run.phase = WORK_SESSION
    /\ run.ticks = 3
    /\ run.remaining > 3

\* C5: every move of the engine into Idle that is not caused by reset()
\* carries exactly one completion notification tagged with the phase that
\* ran out (also when that phase was paused on the way), and a completion
\* notification is emitted only by an operation that ends a Working or
\* Resting phase whose remaining time is zero.
C5_CompletionExactlyOnExpiry ==
    /\ (lastOp # "reset" /\ pre.context.currentState # IDLE
           /\ context.currentState = IDLE) =>
          /\ Len(Completions(events)) = 1
          /\ Completions(events)[1] \in Running
          /\ pre.context.currentState \in Running =>
                Completions(events)[1] = pre.context.currentState
    /\ Completions(events) # <<>> =>
          /\ Len(Completions(events)) = 1
          /\ pre.context.currentState \in Running
          /\ Completions(events)[1] = pre.context.currentState
          /\ context.currentState = IDLE
          /\ \A i \in DOMAIN events :
                events[i].type = "timerComplete" => events[i].remainingTime = 0

\* C6: on an expiry the notifications are delivered in the order
\* state-changed for the completing step, completion carrying the phase that
\* just ended with remaining 0, state-changed reporting Idle.
C6_CompletionOrder ==
    (\E i \in DOMAIN events : events[i].type = "timerComplete") =>
        /\ pre.context.currentState \in Running
        /\ events =
             << [type |-> "stateChange", state |-> pre.context.currentState,
                 remainingTime |-> 0, isTransition |-> TRUE],
                [type |-> "timerComplete", state |-> pre.context.currentState,
                 remainingTime |-> 0, isTransition |-> TRUE],
                [type |-> "stateChange", state |-> IDLE,
                 remainingTime |-> 0, isTransition |-> FALSE] >>

\* C6 witness: a tick has completed a rest period.
C6_Witness ==
    /\ lastOp = "tick"
    /\ Completions(events) = <<REST_PERIOD>>

\* C7: every operation that changes a field of the engine state emits at
\* least one state-changed notification, and the last one carries the phase
\* and remaining time the operation leaves.
C7_EveryChangeNotifies ==
    (context # pre.context) =>
        /\ \E i \in DOMAIN events : events[i].type = "stateChange"
        /\ events[Len(events)].state = context.currentState
        /\ events[Len(events)].remainingTime = context.remainingTime

\* C8: pause() in Idle or Paused and resume() in Idle, Working or Resting
\* leave every field of the engine state and the ticking status unchanged
\* and emit no notification.
C8_GuardedNoOps ==
    ((lastOp = "pause" /\ pre.context.currentState \in {IDLE, PAUSED})
        \/ (lastOp = "resume"
               /\ pre.context.currentState \in {IDLE, WORK_SESSION, REST_PERIOD})) =>
        /\ context = pre.context
        /\ intervalId = pre.intervalId
        /\ liveIntervals = pre.liveIntervals
        /\ events = <<>>

\* C8 witness: pause() was invoked on a paused engine.
C8_Witness ==
    /\ lastOp = "pause"
    /\ pre.context.currentState = PAUSED

\* C9: reset() from any phase yields Idle, remainingSeconds 0, both
\* timestamps unset, ticking stopped and the durations unchanged; a second
\* reset() leaves the state as the first left it.
C9_ResetToIdle ==
    /\ lastOp = "reset" =>
          /\ context = [currentState |-> IDLE,
                        remainingTime |-> 0,
                        sessionDuration |-> pre.context.sessionDuration,
                        restDuration |-> pre.context.restDuration,
                        sessionStartTime |-> Undefined,
                        pausedAt |-> Undefined]
          /\ Stopped
    /\ (lastOp = "reset" /\ pre.lastOp = "reset") =>
          /\ context = pre.context
          /\ intervalId = pre.intervalId
          /\ liveIntervals = pre.liveIntervals

\* C9 witness: reset() of a running rest period.
C9_Witness ==
    /\ lastOp = "reset"
    /\ pre.context.currentState = REST_PERIOD
    /\ pre.liveIntervals = 1

\* C10: updateDurations while Working (Resting) sets remainingSeconds to
\* max(0, new*60 - (old*60 - R)) for the session (rest) durations; if that
\* value is 0 the completion handling runs at once: one completion
\* notification tagged with the running phase, the engine Idle, ticking
\* stopped.
C10_UpdateDurationsWhileRunning ==
    (lastOp = "updateDurations" /\ pre.context.currentState \in Running) =>
        LET phase == pre.context.currentState
            old == IF phase = WORK_SESSION
                   THEN pre.context.sessionDuration ELSE pre.context.restDuration
            new == IF phase = WORK_SESSION
                   THEN context.sessionDuration ELSE context.restDuration
            rescaled == Max(0, new * 60 - (old * 60 - pre.context.remainingTime))
        IN IF rescaled = 0
           THEN /\ context.currentState = IDLE
                /\ Completions(events) = <<phase>>
                /\ Stopped
           ELSE /\ context.currentState = phase
                /\ context.remainingTime = rescaled
                /\ Completions(events) = <<>>


\* C11: updateDurations while Paused rescales remainingSeconds with the
\* elapsed-time-preserving formula of the phase that was paused: the session
\* durations after a pause from Working, the rest durations after a pause
\* from Resting, whatever the remaining time is.
C11_PausedRescaleByPausedPhase ==
    (lastOp = "updateDurations" /\ pre.context.currentState = PAUSED
        /\ pausedFrom \in Running) =>
        LET old == IF pausedFrom = WORK_SESSION
                   THEN pre.context.sessionDuration ELSE pre.context.restDuration
            new == IF pausedFrom = WORK_SESSION
                   THEN context.sessionDuration ELSE context.restDuration
        IN /\ context.currentState = PAUSED
           /\ context.remainingTime =
                 Max(0, new * 60 - (old * 60 - pre.context.remainingTime))

\* C13: remainingSeconds is 0 whenever the phase is Idle.
C13_IdleHasNoRemaining ==
    context.currentState = IDLE => context.remainingTime = 0

\* C13 witness: the engine was reset to Idle while time was left.
C13_Witness ==
    /\ lastOp = "reset"
    /\ context.currentState = IDLE
    /\ pre.context.currentState \in Running
    /\ pre.context.remainingTime > 0

\* C14: phaseStartedAt (sessionStartTime) is set if and only if the phase is
\* Working or Resting; it is unset in Idle and in Paused.
C14_StartTimeIffRunning ==
    (context.sessionStartTime # Undefined) <=> (context.currentState \in Running)

\* C15: pausedAt is set if and only if the phase is Paused.
C15_PausedAtIffPaused ==
    (context.pausedAt # Undefined) <=> (context.currentState = PAUSED)

\* C15 witness: a paused session was resumed.
C15_Witness ==
    /\ lastOp = "resume"
    /\ pre.context.currentState = PAUSED
    /\ context.currentState \in Running


(***************************************************************************)
(* StateManager: the persisted record and its reconciliation.              *)
(***************************************************************************)

\* "/ 1000); // in seconds"
MsPerSecond == 1000

\* isValidPersistedState: sessionDuration < 1 || sessionDuration > 120
MinDuration == 1
MaxSessionDuration == 120

\* isValidPersistedState: restDuration < 1 || restDuration > 60
MaxRestDuration == 60

\* The clock moves in steps of half a second.
ClockStepMs == 500

\* The clock is followed up to this many seconds.
MaxClockSeconds == 130

\* saveState() is invoked during the first seconds of the clock only.
MaxSaveSeconds == 1

\* Remaining times 0..MaxRemaining are saved besides the full durations.
MaxRemaining == 3

\* Largest sessionCount handed to saveState().
MaxSessionCount == 1

\* The remaining times a phase of `duration` minutes is saved with.
Remainings(duration) == (0..MaxRemaining) \cup {duration * SecondsPerMinute}

\* The TimerContext values getCurrentState() hands to saveState().
EngineContexts ==
    UNION {
        {NewContext(sd, rd)}
        \cup {[NewContext(sd, rd) EXCEPT !.currentState = WORK_SESSION,
                                         !.remainingTime = r,
                                         !.sessionStartTime = NewDate]
                 : r \in Remainings(sd)}
        \cup {[NewContext(sd, rd) EXCEPT !.currentState = REST_PERIOD,
                                         !.remainingTime = r,
                                         !.sessionStartTime = NewDate]
                 : r \in Remainings(rd)}
        \cup {[NewContext(sd, rd) EXCEPT !.currentState = PAUSED,
                                         !.remainingTime = r,
                                         !.sessionStartTime = NewDate,
                                         !.pausedAt = NewDate]
                 : r \in Remainings(sd) \cup Remainings(rd)}
        : sd \in Durations, rd \in Durations }

\* The statistics the host hands to saveState().
Statistics ==
    {[sessionCount |-> c, totalWorkTime |-> c * d * SecondsPerMinute]
        : c \in 0..MaxSessionCount, d \in {MinDuration}}

RequiredProps == {"currentState", "remainingTime", "lastActiveTime", "sessionCount",
                  "totalWorkTime", "sessionDuration", "restDuration"}

\* What a property of a stored record holds when it is not the integer (or
\* the timestamp) saveState() writes there.  The record then carries a field
\* "odd", a function from the names of such properties to one of these; the
\* property itself keeps a value that nothing reads.
NotANumber == "not a number"
UnparsableDate == "unparsable date"
NaN == "NaN"

OddOf(state) == IF "odd" \in DOMAIN state THEN state.odd ELSE << >>

Odd(state, prop) ==
    IF prop \in DOMAIN OddOf(state) THEN OddOf(state)[prop] ELSE "none"

\* The record or context `value` with the properties in DOMAIN odd marked.
Mark(value, odd) ==
    IF DOMAIN odd = {} THEN value ELSE value @@ [odd |-> odd]

\* typeof state[prop] === 'number'
IsNumber(state, prop) == Odd(state, prop) \in {"none", NaN}

\* state[prop] < bound and state[prop] > bound; both are false of NaN.
LessThan(state, prop, bound) ==
    Odd(state, prop) = "none" /\ state[prop] < bound

GreaterThan(state, prop, bound) ==
    Odd(state, prop) = "none" /\ state[prop] > bound

\* private isValidPersistedState(state).  The try block around the two
\* `new Date(...)` calls always completes: the Date constructor returns an
\* Invalid Date for what it cannot parse and does not throw, so the
\* timestamps put no condition on the record.
isValidPersistedState(state) ==
    /\ state # NoRecord
    /\ RequiredProps \subseteq DOMAIN state
    /\ state.currentState \in TimerState
    /\ IsNumber(state, "remainingTime")
    /\ ~LessThan(state, "remainingTime", 0)
    /\ IsNumber(state, "sessionDuration")
    /\ ~LessThan(state, "sessionDuration", MinDuration)
    /\ ~GreaterThan(state, "sessionDuration", MaxSessionDuration)
    /\ IsNumber(state, "restDuration")
    /\ ~LessThan(state, "restDuration", MinDuration)
    /\ ~GreaterThan(state, "restDuration", MaxRestDuration)

\* private createIdleContext(sessionDuration, restDuration)
createIdleContext(sessionDuration, restDuration) ==
    [currentState |-> IDLE,
     remainingTime |-> 0,
     sessionDuration |-> sessionDuration,
     restDuration |-> restDuration,
     sessionStartTime |-> Undefined,
     pausedAt |-> Undefined]

\* The marks a context built from `persistedState` inherits with the
\* properties copied into it.
Inherited(persistedState) ==
    LET odd == OddOf(persistedState)
    IN [p \in DOMAIN odd \cap {"remainingTime", "sessionDuration",
                               "restDuration", "sessionStartTime"} |-> odd[p]]

\* private createTimerContextFromPersisted(persistedState)
createTimerContextFromPersisted(persistedState) ==
    Mark([currentState |-> persistedState.currentState,
          remainingTime |-> persistedState.remainingTime,
          sessionDuration |-> persistedState.sessionDuration,
          restDuration |-> persistedState.restDuration,
          sessionStartTime |-> IF persistedState.sessionStartTime # Undefined
                               THEN NewDate ELSE Undefined,
          pausedAt |-> IF persistedState.currentState = PAUSED
                       THEN NewDate ELSE Undefined],
         Inherited(persistedState))

\* handleExpiredSession comparing with > where the code has >=
handleExpiredSession_StrictCompare(persistedState, timeDifference) ==
    LET restDurationSeconds == persistedState.restDuration * SecondsPerMinute
        timeAfterWorkSession == timeDifference - persistedState.remainingTime
    IN IF persistedState.currentState = WORK_SESSION
       THEN IF timeAfterWorkSession > restDurationSeconds
            THEN createIdleContext(persistedState.sessionDuration,
                                   persistedState.restDuration)
            ELSE [currentState |-> REST_PERIOD,
                  remainingTime |-> restDurationSeconds - timeAfterWorkSession,
                  sessionDuration |-> persistedState.sessionDuration,
                  restDuration |-> persistedState.restDuration,
                  sessionStartTime |-> NewDate,
                  pausedAt |-> Undefined]
       ELSE createIdleContext(persistedState.sessionDuration,
                              persistedState.restDuration)

\* handleExpiredSession chaining an expired rest period into a work session
handleExpiredSession_ChainsWork(persistedState, timeDifference) ==
    LET restDurationSeconds == persistedState.restDuration * SecondsPerMinute
        timeAfterWorkSession == timeDifference - persistedState.remainingTime
    IN IF persistedState.currentState = WORK_SESSION
       THEN IF timeAfterWorkSession >= restDurationSeconds
            THEN createIdleContext(persistedState.sessionDuration,
                                   persistedState.restDuration)
            ELSE [currentState |-> REST_PERIOD,
                  remainingTime |-> restDurationSeconds - timeAfterWorkSession,
                  sessionDuration |-> persistedState.sessionDuration,
                  restDuration |-> persistedState.restDuration,
                  sessionStartTime |-> NewDate,
                  pausedAt |-> Undefined]
       ELSE [currentState |-> WORK_SESSION,
             remainingTime |-> persistedState.sessionDuration * SecondsPerMinute,
             sessionDuration |-> persistedState.sessionDuration,
             restDuration |-> persistedState.restDuration,
             sessionStartTime |-> NewDate,
             pausedAt |-> Undefined]

\* private handleExpiredSession(persistedState, timeDifference)
handleExpiredSession(persistedState, timeDifference) ==
    LET restDurationSeconds == persistedState.restDuration * SecondsPerMinute
        timeAfterWorkSession == timeDifference - persistedState.remainingTime
    IN IF persistedState.currentState = WORK_SESSION
       THEN IF timeAfterWorkSession >= restDurationSeconds
            THEN createIdleContext(persistedState.sessionDuration,
                                   persistedState.restDuration)
            ELSE [currentState |-> REST_PERIOD,
                  remainingTime |-> restDurationSeconds - timeAfterWorkSession,
                  sessionDuration |-> persistedState.sessionDuration,
                  restDuration |-> persistedState.restDuration,
                  sessionStartTime |-> NewDate,
                  pausedAt |-> Undefined]
       ELSE createIdleContext(persistedState.sessionDuration,
                              persistedState.restDuration)

\* The StateManager call `call` returns `result` leaving `stored` in globalState.
Return(call, result, stored) ==
    /\ globalState' = stored
    /\ restored' = result
    /\ lastCall' = call
    /\ statsArgs' = NoStatistics
    /\ UNCHANGED <<now, savedContext>>
    /\ UNCHANGED <<engineVars, hostVars, callerVars>>

\* public saveState(timerContext, sessionCount, totalWorkTime)
saveState(timerContext, sessionCount, totalWorkTime) ==
    /\ now <= MaxSaveSeconds * MsPerSecond
    /\ globalState' =
          PersistedState(timerContext, sessionCount, totalWorkTime, now)
    /\ savedContext' = timerContext
    /\ restored' = NotRestored
    /\ lastCall' = "saveState"
    /\ statsArgs' = NoStatistics
    /\ UNCHANGED now
    /\ UNCHANGED <<engineVars, hostVars, callerVars>>

\* ActiveContext starting the rest that follows an expired work session in
\* full, whatever time has gone by since the expiry
ActiveContext_FullRest(persistedState, timeDifference) ==
    LET adjustedRemainingTime ==
            Max(0, persistedState.remainingTime - timeDifference)
    IN IF adjustedRemainingTime <= 0
       THEN handleExpiredSession(persistedState, persistedState.remainingTime)
       ELSE [currentState |-> persistedState.currentState,
             remainingTime |-> adjustedRemainingTime,
             sessionDuration |-> persistedState.sessionDuration,
             restDuration |-> persistedState.restDuration,
             sessionStartTime |-> IF persistedState.sessionStartTime # Undefined
                                  THEN NewDate ELSE Undefined,
             pausedAt |-> Undefined]

\* The context restoreState() returns for a valid record of an active
\* session, `timeDifference` seconds after it was written.  An unparsable
\* lastActiveTime makes timeDifference, and with it adjustedRemainingTime,
\* NaN; NaN <= 0 is false, so the session counts as still active.
ActiveContext(persistedState, timeDifference) ==
    LET adjustedIsNaN ==
            \/ Odd(persistedState, "lastActiveTime") = UnparsableDate
            \/ Odd(persistedState, "remainingTime") = NaN
        adjustedRemainingTime ==
            Max(0, persistedState.remainingTime - timeDifference)
        restoredContext(remainingTime) ==
            [currentState |-> persistedState.currentState,
             remainingTime |-> remainingTime,
             sessionDuration |-> persistedState.sessionDuration,
             restDuration |-> persistedState.restDuration,
             sessionStartTime |-> IF persistedState.sessionStartTime # Undefined
                                  THEN NewDate ELSE Undefined,
             pausedAt |-> Undefined]
    IN IF adjustedIsNaN
       THEN Mark(restoredContext(0),
                 [remainingTime |-> NaN] @@ Inherited(persistedState))
       ELSE IF adjustedRemainingTime <= 0
       THEN handleExpiredSession(persistedState, timeDifference)
       ELSE Mark(restoredContext(adjustedRemainingTime),
                 Inherited(persistedState))

\* restoreState taking the difference of the clocks for seconds
restoreState_MillisAsSeconds ==
    LET persistedState == globalState
        timeDifference == now - persistedState.lastActiveTime
    IN IF persistedState = NoRecord
       THEN Return("restoreState", NullContext, globalState)
       ELSE IF ~isValidPersistedState(persistedState)
       THEN Return("restoreState", NullContext, NoRecord)
       ELSE IF persistedState.currentState \in {IDLE, PAUSED}
       THEN Return("restoreState",
                   createTimerContextFromPersisted(persistedState), globalState)
       ELSE Return("restoreState",
                   ActiveContext(persistedState, timeDifference), globalState)

\* restoreState returning only an idle record as it is
restoreState_DriftsPaused ==
    LET persistedState == globalState
        timeDifference == (now - persistedState.lastActiveTime) \div MsPerSecond
    IN IF persistedState = NoRecord
       THEN Return("restoreState", NullContext, globalState)
       ELSE IF ~isValidPersistedState(persistedState)
       THEN Return("restoreState", NullContext, NoRecord)
       ELSE IF persistedState.currentState = IDLE
       THEN Return("restoreState",
                   createTimerContextFromPersisted(persistedState), globalState)
       ELSE Return("restoreState",
                   ActiveContext(persistedState, timeDifference), globalState)

\* public restoreState()
restoreState ==
    LET persistedState == globalState
        \* Math.floor((now.getTime() - lastActiveTime.getTime()) / 1000)
        timeDifference == (now - persistedState.lastActiveTime) \div MsPerSecond
    IN IF persistedState = NoRecord
       THEN Return("restoreState", NullContext, globalState)
       ELSE IF ~isValidPersistedState(persistedState)
       THEN \* clearState()
            Return("restoreState", NullContext, NoRecord)
       ELSE IF persistedState.currentState \in {IDLE, PAUSED}
       THEN Return("restoreState",
                   createTimerContextFromPersisted(persistedState), globalState)
       ELSE Return("restoreState",
                   ActiveContext(persistedState, timeDifference), globalState)

\* public clearState()
clearState == Return("clearState", NotRestored, NoRecord)

\* The wall clock advances.
AdvanceClock ==
    /\ now + ClockStepMs <= MaxClockSeconds * MsPerSecond
    /\ now' = now + ClockStepMs
    /\ restored' = NotRestored
    /\ lastCall' = "clock"
    /\ statsArgs' = NoStatistics
    /\ UNCHANGED <<globalState, savedContext>>
    /\ UNCHANGED <<engineVars, hostVars, callerVars>>

StoreInit ==
    /\ Init
    /\ context = NewContext(MinDuration, MinDuration)

StoreNext ==
    \/ \E timerContext \in EngineContexts, stats \in Statistics :
          saveState(timerContext, stats.sessionCount, stats.totalWorkTime)
    \/ restoreState
    \/ clearState
    \/ AdvanceClock

StoreSpec == StoreInit /\ [][StoreNext]_vars


(***************************************************************************)
(* The StateManager over a storage that other writers reach too, and under *)
(* a wall clock that can be set back.                                      *)
(***************************************************************************)

\* What getStatistics() returns for the stored `persistedState`.
StoredStatistics(persistedState) ==
    IF persistedState = NoRecord \/ ~isValidPersistedState(persistedState)
    THEN [sessionCount |-> 0, totalWorkTime |-> 0]
    ELSE [sessionCount |-> persistedState.sessionCount,
          totalWorkTime |-> persistedState.totalWorkTime]

\* public getStatistics()
getStatistics ==
    Return("getStatistics", StoredStatistics(globalState), globalState)

\* What updateStatistics(sessionCount, totalWorkTime) leaves stored.
WithStatistics(persistedState, sessionCount, totalWorkTime) ==
    IF persistedState # NoRecord /\ isValidPersistedState(persistedState)
    THEN [persistedState EXCEPT !.sessionCount = sessionCount,
                                !.totalWorkTime = totalWorkTime]
    ELSE persistedState

\* public updateStatistics(sessionCount, totalWorkTime)
updateStatistics(sessionCount, totalWorkTime) ==
    /\ globalState' = WithStatistics(globalState, sessionCount, totalWorkTime)
    /\ restored' = NotRestored
    /\ lastCall' = "updateStatistics"
    /\ statsArgs' = [sessionCount |-> sessionCount,
                     totalWorkTime |-> totalWorkTime]
    /\ UNCHANGED <<now, savedContext>>
    /\ UNCHANGED <<engineVars, hostVars, callerVars>>

\* The record saveState() writes at time 0 for `timerContext`, no session
\* counted yet.
Written(timerContext) == PersistedState(timerContext, 0, 0, 0)

\* The records the damaged ones below are made from: an idle, a working and
\* a paused engine.
SoundRecords ==
    LET idle == NewContext(MinDuration, MinDuration)
    IN {Written(idle),
        Written([idle EXCEPT !.currentState = WORK_SESSION,
                             !.remainingTime = MaxRemaining,
                             !.sessionStartTime = NewDate]),
        Written([idle EXCEPT !.currentState = PAUSED,
                             !.remainingTime = MaxRemaining,
                             !.sessionStartTime = NewDate,
                             !.pausedAt = NewDate])}

\* `record` without its property `prop`.
Without(record, prop) == [p \in DOMAIN record \ {prop} |-> record[p]]

\* What the storage can hold that saveState() did not write: a value that is
\* no record of this program, and records damaged in one property.
DamagedRecords ==
    {[invalid |-> "data"]}
    \cup UNION {
        {Without(record, "restDuration"),
         [record EXCEPT !.currentState = "invalid_state"],
         [record EXCEPT !.remainingTime = -MinDuration],
         Mark(record, [remainingTime |-> NotANumber]),
         [record EXCEPT !.sessionDuration = MinDuration - 1],
         [record EXCEPT !.sessionDuration = MaxSessionDuration + 1],
         Mark(record, [sessionDuration |-> NotANumber]),
         [record EXCEPT !.restDuration = MinDuration - 1],
         [record EXCEPT !.restDuration = MaxRestDuration + 1],
         Mark(record, [restDuration |-> NotANumber]),
         Mark(record, [lastActiveTime |-> UnparsableDate]),
         Mark([record EXCEPT !.sessionStartTime = NewDate],
              [sessionStartTime |-> UnparsableDate])}
        : record \in SoundRecords}

\* globalState.update(STATE_KEY, record) by a writer other than saveState():
\* another version of the extension, a settings sync, a test.
update(record) ==
    /\ globalState' = record
    /\ restored' = NotRestored
    /\ lastCall' = "update"
    /\ savedContext' = NullContext
    /\ statsArgs' = NoStatistics
    /\ UNCHANGED now
    /\ UNCHANGED <<engineVars, hostVars, callerVars>>

\* The wall clock is set back: the next `new Date()` is earlier than the last.
SetClockBack ==
    /\ now >= ClockStepMs
    /\ now' = now - ClockStepMs
    /\ restored' = NotRestored
    /\ lastCall' = "clock"
    /\ statsArgs' = NoStatistics
    /\ UNCHANGED <<globalState, savedContext>>
    /\ UNCHANGED <<engineVars, hostVars, callerVars>>

SharedStoreNext ==
    \/ StoreNext
    \/ getStatistics
    \/ \E stats \in Statistics :
          updateStatistics(stats.sessionCount, stats.totalWorkTime)
    \/ \E record \in DamagedRecords : update(record)
    \/ SetClockBack

SharedStoreSpec == StoreInit /\ [][SharedStoreNext]_vars


(***************************************************************************)
(* WorkSessionManagerExtension: the engine, the StateManager and the       *)
(* settings wired together by the extension.                               *)
(***************************************************************************)

\* Completed sessions counted, and promises and timeouts pending at a time.
MaxHostSessions == 1
MaxPending == 1

\* Notifications of the status bar waiting for their timeout at a time.
MaxNotifications == 2

\* ExtensionConfig as far as the running timer depends on it.
HostConfigs ==
    [sessionDuration : Durations, restDuration : {MinDuration},
     autoStartRest : BOOLEAN, autoStartWork : {FALSE}]

\* What the previous run of the extension left in the storage.
HostRecords == {NoRecord} \cup SoundRecords

\* The engine, the storage, the clock and the extension, as a handler of
\* the extension sees them.
World ==
    [context |-> context, intervalId |-> intervalId,
     liveIntervals |-> liveIntervals, events |-> <<>>,
     listeners |-> listeners, thrown |-> FALSE,
     globalState |-> globalState, now |-> now, host |-> host,
     statusBar |-> statusBar]

\* A handler of the extension returns leaving the world as `w`; `op` is the
\* method of the engine it called, "none" if it called none.
HostReturned(op, w) ==
    \* `w` is worked out once, as what the handler has left
    \E left \in {w} :
        /\ left.host.sessionCount <= MaxHostSessions
        /\ Len(left.host.awaiting) <= MaxPending
        /\ Len(left.host.timeouts) <= MaxPending
        /\ IF left.statusBar = NoStatusBar
           THEN TRUE
           ELSE Len(left.statusBar.pending) <= MaxNotifications
        /\ IF op = "none"
           THEN UNCHANGED engineVars
           ELSE Returned(op, left)
        /\ globalState' = left.globalState
        /\ host' = left.host
        /\ lastCall' = "extension"
        /\ restored' = NotRestored
        /\ savedContext' = NullContext
        /\ statsArgs' = NoStatistics
        /\ statusBar' = left.statusBar
        /\ UNCHANGED now
        /\ UNCHANGED callerVars

\* The constructor of the extension up to setupEventHandlers(): the engine
\* is built from the settings, the listeners are registered, and the
\* storage holds what the previous run left, a second ago.
HostConstructed ==
    /\ \E config \in HostConfigs :
          /\ context = NewContext(config.sessionDuration, config.restDuration)
          /\ host = [activated |-> FALSE, disposed |-> FALSE,
                     sessionCount |-> 0, totalWorkTime |-> 0,
                     config |-> config,
                     awaiting |-> <<>>, timeouts |-> <<>>]
    /\ intervalId = Null
    /\ liveIntervals = 0
    /\ events = <<>>
    /\ lastOp = "constructor"
    /\ pre = [context |-> context, intervalId |-> Null,
              liveIntervals |-> 0, lastOp |-> "none"]
    /\ run = [phase |-> IDLE, remaining |-> 0, ticks |-> 0, completions |-> <<>>]
    /\ beforePause = NoPause
    /\ pausedFrom = "none"
    /\ listeners = ExtensionListeners
    /\ thrown = FALSE
    /\ globalState \in HostRecords
    /\ now = MsPerSecond
    /\ lastCall = "none"
    /\ restored = NotRestored
    /\ savedContext = NullContext
    /\ statsArgs = NoStatistics
    /\ CallerInit

\* The extension constructed, its status bar left aside.
HostInit ==
    /\ HostConstructed
    /\ statusBar = NoStatusBar

\* private async restoreState() of the extension, the last call of its
\* constructor; autoStartOnOpen is the setting as it reads it
Extension_restoreState(autoStartOnOpen) ==
    /\ ~host.activated
    /\ LET stats == StoredStatistics(globalState)
           w1 == [World EXCEPT !.host.sessionCount = stats.sessionCount,
                               !.host.totalWorkTime = stats.totalWorkTime,
                               !.host.activated = TRUE]
       IN IF autoStartOnOpen
          THEN HostReturned("startSession",
                  Extension_saveState(
                      Notified(startSessionOn(w1), "Work Session Started",
                               NotificationMs)))
          ELSE HostReturned("none", Displayed(w1))

\* private startSession() of the extension: the command, and the timeout
Extension_startSessionOn(w) ==
    Extension_saveState(
        Notified(startSessionOn(w), "Work Session Started", NotificationMs))

\* private startRest() of the extension: the command, and the timeout
Extension_startRestOn(w) ==
    Extension_saveState(
        Notified(startRestOn(w), "Rest Period Started", NotificationMs))

\* The commands are registered until dispose().
CommandsRegistered == host.activated /\ ~host.disposed

\* command workSessionManager.startSession
Extension_startSession ==
    /\ CommandsRegistered
    /\ HostReturned("startSession", Extension_startSessionOn(World))

\* command workSessionManager.startRest
Extension_startRest ==
    /\ CommandsRegistered
    /\ HostReturned("startRest", Extension_startRestOn(World))

\* command workSessionManager.pause
Extension_pause ==
    /\ CommandsRegistered
    /\ HostReturned("pause",
          Extension_saveState(
              Notified(pauseOn(World), "Timer Paused", NotificationMs)))

\* command workSessionManager.resume
Extension_resume ==
    /\ CommandsRegistered
    /\ HostReturned("resume",
          Extension_saveState(
              Notified(resumeOn(World), "Timer Resumed", NotificationMs)))

\* command workSessionManager.reset
Extension_reset ==
    /\ CommandsRegistered
    /\ HostReturned("reset",
          Extension_saveState(
              Notified(resetOn(World), "Timer Reset", NotificationMs)))

\* private handleConfigurationChange(config) of the extension, called when
\* the settings change
Extension_handleConfigurationChange(config) ==
    /\ CommandsRegistered
    /\ LET w1 == [World EXCEPT !.host.config = config]
           w2 == updateDurationsOn(w1, config.sessionDuration,
                                   config.restDuration)
       \* applyTheme, toggleVisibility and forceUpdate each end in
       \* updateDisplay()
       IN HostReturned("updateDurations", StatusBar_forceUpdate(w2))

\* The interval of the engine is of a second: while the timeout of a
\* notification is pending the callback of the interval runs at most once
\* for each second of it.
TimeForTick(bar) ==
    IF bar = NoStatusBar
    THEN TRUE
    ELSE \A index \in 1..Len(bar.pending) :
            bar.pending[index].ticks
                < bar.pending[index].durationMs \div MsPerSecond

Ticked(w) ==
    [w EXCEPT !.statusBar =
        IF @ = NoStatusBar
        THEN @
        ELSE [@ EXCEPT !.pending =
                 [index \in 1..Len(@) |-> [@[index] EXCEPT !.ticks = @ + 1]]]]

\* The interval callback of the engine, with the listeners of the extension
\* registered.
Extension_tick ==
    /\ liveIntervals > 0
    /\ TimeForTick(statusBar)
    /\ HostReturned("tick", tickOn(Ticked(World)))

\* showSessionComplete() or showRestComplete(), by the phase that completed
Completed(w, state) ==
    CASE state = WORK_SESSION ->
            Notified(w, "Work Session Complete!", CompletionNotificationMs)
      [] state = REST_PERIOD ->
            Notified(w, "Rest Period Complete!", CompletionNotificationMs)
      [] OTHER -> w

\* the continuation of handleTimerCompletion scheduling no next phase
Extension_soundPlayed_NoAutoStart ==
    /\ host.awaiting # <<>>
    /\ LET w1 == Completed([World EXCEPT !.host.awaiting = Tail(@)],
                            Head(host.awaiting).state)
       IN HostReturned("none",
             [w1 EXCEPT !.globalState =
                 WithStatistics(@, w1.host.sessionCount,
                                w1.host.totalWorkTime)])

\* handleTimerCompletion of the extension from its first await on: the
\* sound has been played, the next phase is scheduled if the settings asked
\* for it, and the statistics are written.  Sounds end in the order they
\* were started.
Extension_soundPlayed ==
    /\ host.awaiting # <<>>
    /\ LET completion == Head(host.awaiting)
           call == IF completion.state = WORK_SESSION
                   THEN "startRest" ELSE "startSession"
           w1 == Completed([World EXCEPT !.host.awaiting = Tail(@)],
                           completion.state)
           w2 == IF completion.autoStart
                 THEN [w1 EXCEPT !.host.timeouts = Append(@, call)]
                 ELSE w1
       IN HostReturned("none",
             [w2 EXCEPT !.globalState =
                 WithStatistics(@, w2.host.sessionCount,
                                w2.host.totalWorkTime)])

\* The callback of a setTimeout() of handleTimerCompletion runs.
Extension_timeout ==
    /\ host.timeouts # <<>>
    /\ LET call == Head(host.timeouts)
           w1 == [World EXCEPT !.host.timeouts = Tail(@)]
       IN IF call = "startRest"
          THEN HostReturned("startRest", Extension_startRestOn(w1))
          ELSE HostReturned("startSession", Extension_startSessionOn(w1))

\* public dispose() of the extension
Extension_dispose ==
    /\ CommandsRegistered
    /\ LET w1 == Extension_saveState(World)
           w2 == disposeOn(w1)
       IN HostReturned("dispose", [w2 EXCEPT !.host.disposed = TRUE])

HostNext ==
    \/ \E autoStartOnOpen \in BOOLEAN : Extension_restoreState(autoStartOnOpen)
    \/ Extension_startSession
    \/ Extension_startRest
    \/ Extension_pause
    \/ Extension_resume
    \/ Extension_reset
    \/ \E config \in HostConfigs : Extension_handleConfigurationChange(config)
    \/ Extension_tick
    \/ Extension_soundPlayed
    \/ Extension_timeout
    \/ Extension_dispose

HostSpec == HostInit /\ [][HostNext]_vars

\* The settings of the runs in which the scheduling of the host is followed
\* to its end: one duration, autoStartRest set or not.
LiveConfigs ==
    [sessionDuration : {MinDuration}, restDuration : {MinDuration},
     autoStartRest : BOOLEAN, autoStartWork : {FALSE}]

\* The extension activated on an empty storage.
HostLiveInit ==
    /\ HostInit
    /\ host.config \in LiveConfigs
    /\ globalState = NoRecord

\* The user starts, pauses, resumes and resets sessions, but neither starts
\* a rest by hand, nor changes the settings, nor closes the editor.
HostLiveNext ==
    \/ \E autoStartOnOpen \in BOOLEAN : Extension_restoreState(autoStartOnOpen)
    \/ Extension_startSession
    \/ Extension_pause
    \/ Extension_resume
    \/ Extension_reset
    \/ Extension_tick
    \/ Extension_soundPlayed
    \/ Extension_timeout

\* The extension in a host that runs what it has scheduled: a sound that has
\* been started ends (playSessionEndSound and playRestEndSound always
\* resolve), and the callback of a setTimeout() is called.
HostLiveSpec ==
    /\ HostLiveInit
    /\ [][HostLiveNext]_vars
    /\ WF_vars(Extension_soundPlayed)
    /\ WF_vars(Extension_timeout)


\* The callback of a setTimeout() of showTemporaryMessage runs: the one of
\* the notification `index`, which no notification that is due before it
\* is waiting in front of.
StatusBar_timeout(index) ==
    /\ statusBar # NoStatusBar
    /\ index \in 1..Len(statusBar.pending)
    /\ \A earlier \in 1..(index - 1) :
          statusBar.pending[earlier].durationMs
              > statusBar.pending[index].durationMs
    /\ LET callback == statusBar.pending[index]
           kept == [position \in 1..(Len(statusBar.pending) - 1) |->
                       IF position < index
                       THEN statusBar.pending[position]
                       ELSE statusBar.pending[position + 1]]
       IN HostReturned("none",
             [World EXCEPT !.statusBar.item =
                               [text |-> callback.originalText,
                                command |-> callback.originalCommand],
                           !.statusBar.pending = kept])

\* The extension with its status bar, activated on an empty storage.
StatusBarInit ==
    /\ HostConstructed
    /\ host.config \in LiveConfigs
    /\ globalState = NoRecord
    /\ statusBar = NewStatusBar

\* The user runs commands while no phase is counted down, and in the first
\* seconds of a phase.
CommandSeconds == 2

UserActs ==
    \/ context.remainingTime = 0
    \/ context.remainingTime
          >= MinDuration * SecondsPerMinute - CommandSeconds

\* The commands of the user, the ticks, the completions and the timeouts.
StatusBarNext ==
    \/ \E autoStartOnOpen \in BOOLEAN : Extension_restoreState(autoStartOnOpen)
    \/ UserActs /\ Extension_startSession
    \/ UserActs /\ Extension_startRest
    \/ UserActs /\ Extension_pause
    \/ UserActs /\ Extension_resume
    \/ UserActs /\ Extension_reset
    \/ Extension_tick
    \/ Extension_soundPlayed
    \/ Extension_timeout
    \/ \E index \in 1..MaxNotifications : StatusBar_timeout(index)

StatusBarSpec == StatusBarInit /\ [][StatusBarNext]_vars


(***************************************************************************)
(* The engine fed with durations nobody validated.                         *)
(***************************************************************************)

\* Numbers a caller may hand to the constructor and to updateDurations:
\* below the documented range as well as in it.
RawDurations == -1..MinDuration

UnvalidatedInit ==
    /\ \E sessionDuration \in RawDurations, restDuration \in RawDurations :
          context = NewContext(sessionDuration, restDuration)
    /\ intervalId = Null
    /\ liveIntervals = 0
    /\ events = <<>>
    /\ lastOp = "constructor"
    /\ pre = [context |-> context, intervalId |-> Null,
              liveIntervals |-> 0, lastOp |-> "none"]
    /\ run = [phase |-> IDLE, remaining |-> 0, ticks |-> 0, completions |-> <<>>]
    /\ beforePause = NoPause
    /\ pausedFrom = "none"
    /\ listeners = ReturningListeners
    /\ thrown = FALSE
    /\ globalState = NoRecord
    /\ now = 0
    /\ lastCall = "none"
    /\ restored = NotRestored
    /\ savedContext = NullContext
    /\ statsArgs = NoStatistics
    /\ host = NoHost
    /\ statusBar = NoStatusBar
    /\ CallerInit

UnvalidatedNext ==
    \/ startSession
    \/ startRest
    \/ pause
    \/ resume
    \/ reset
    \/ \E sessionDuration \in RawDurations, restDuration \in RawDurations :
          updateDurations(sessionDuration, restDuration)
    \/ tick

UnvalidatedSpec == UnvalidatedInit /\ [][UnvalidatedNext]_vars

\* C12: in every reachable engine state sessionDurationMinutes lies in 1..120
\* and restDurationMinutes in 1..60, whatever numbers are passed to the
\* constructor or to updateDurations.
C12_DurationsWithinBounds ==
    /\ context.sessionDuration \in 1..120
    /\ context.restDuration \in 1..60

\* Whole seconds between the write of the stored record and now.
Elapsed == (now - globalState.lastActiveTime) \div 1000

\* restoreState() has just returned for a stored (valid) record.
Loaded == lastCall = "restoreState" /\ globalState # NoRecord

SameDurations ==
    /\ restored.sessionDuration = globalState.sessionDuration
    /\ restored.restDuration = globalState.restDuration

\* C16: a save followed by a load with no time elapsed returns the saved
\* phase, remainingSeconds and durations, for every engine state.
C16_RoundTripIdentity ==
    (Loaded /\ now = globalState.lastActiveTime) =>
        /\ restored # NullContext
        /\ restored.currentState = savedContext.currentState
        /\ restored.remainingTime = savedContext.remainingTime
        /\ restored.sessionDuration = savedContext.sessionDuration
        /\ restored.restDuration = savedContext.restDuration

\* C17: a Working record with remaining R loaded e >= R seconds later gives,
\* with overflow = e - R, Resting with restDuration*60 - overflow if
\* overflow < restDuration*60 and Idle with remaining 0 otherwise.
C17_ExpiredWorkBecomesRest ==
    (Loaded /\ globalState.currentState = WORK_SESSION
        /\ Elapsed >= globalState.remainingTime) =>
        LET overflow == Elapsed - globalState.remainingTime
            restSeconds == globalState.restDuration * 60
        IN /\ SameDurations
           /\ IF overflow < restSeconds
              THEN /\ restored.currentState = REST_PERIOD
                   /\ restored.remainingTime = restSeconds - overflow
              ELSE /\ restored.currentState = IDLE
                   /\ restored.remainingTime = 0

\* C17 witness: a work session loaded after it and part of the rest ran out.
C17_Witness ==
    /\ Loaded
    /\ globalState.currentState = WORK_SESSION
    /\ globalState.remainingTime > 0
    /\ Elapsed > globalState.remainingTime
    /\ restored.currentState = REST_PERIOD

\* C18: a Working or Resting record with remaining R loaded e < R seconds
\* later gives the same phase with remaining R - e and the stored durations.
C18_SurvivingSessionDrift ==
    (Loaded /\ globalState.currentState \in Running
        /\ Elapsed >= 0 /\ Elapsed < globalState.remainingTime) =>
        /\ restored.currentState = globalState.currentState
        /\ restored.remainingTime = globalState.remainingTime - Elapsed
        /\ SameDurations

\* C18 witness: a rest period loaded some seconds later, still running.
C18_Witness ==
    /\ Loaded
    /\ globalState.currentState = REST_PERIOD
    /\ Elapsed >= 2
    /\ Elapsed < globalState.remainingTime

\* C19: a Resting record whose remaining time is at most the elapsed time
\* loads as Idle with remaining 0, never as a Working phase.
C19_ExpiredRestBecomesIdle ==
    (Loaded /\ globalState.currentState = REST_PERIOD
        /\ globalState.remainingTime <= Elapsed) =>
        /\ restored.currentState = IDLE
        /\ restored.remainingTime = 0
        /\ SameDurations

\* C19 witness: a rest period loaded more than a work session after it ended.
C19_Witness ==
    /\ Loaded
    /\ globalState.currentState = REST_PERIOD
    /\ Elapsed > globalState.remainingTime + globalState.sessionDuration * 60

\* C20: an Idle or Paused record loads with the stored phase, remaining time
\* and durations, however much time elapsed since the save.
C20_IdlePausedDoNotDrift ==
    (Loaded /\ globalState.currentState \in {IDLE, PAUSED}) =>
        /\ restored.currentState = globalState.currentState
        /\ restored.remainingTime = globalState.remainingTime
        /\ SameDurations

\* C20 witness: a paused session loaded after more than its remaining time.
C20_Witness ==
    /\ Loaded
    /\ globalState.currentState = PAUSED
    /\ globalState.remainingTime > 0
    /\ Elapsed > globalState.remainingTime


\* C21: for every valid Working or Resting record, the remaining time load()
\* returns in the same phase never exceeds the stored remaining time, also
\* when lastActiveAt is later than the current clock reading.
C21_ElapsedNeverNegative ==
    (Loaded /\ isValidPersistedState(globalState)
        /\ OddOf(globalState) = << >>
        /\ globalState.currentState \in Running
        /\ restored.currentState = globalState.currentState) =>
        restored.remainingTime <= globalState.remainingTime

\* A stored value is structurally valid: it has every required property, a
\* phase tag among the four phases, a session duration that is a number in
\* 1..120, a rest duration that is a number in 1..60, a remaining time that
\* is a number and not negative, and timestamps that can be parsed.
StructurallyValid(record) ==
    /\ record # NoRecord
    /\ RequiredProps \subseteq DOMAIN record
    /\ OddOf(record) = << >>
    /\ record.currentState \in {IDLE, WORK_SESSION, REST_PERIOD, PAUSED}
    /\ record.sessionDuration \in 1..120
    /\ record.restDuration \in 1..60
    /\ record.remainingTime >= 0

\* C22: load() returns null when no record is stored; when the stored record
\* is structurally invalid it returns null and erases the record, so that
\* every later load() returns null until a new save().
C22_InvalidRecordErased ==
    [][lastCall' = "restoreState" =>
          /\ globalState = NoRecord =>
                 (restored' = NullContext /\ globalState' = NoRecord)
          /\ (globalState # NoRecord /\ ~StructurallyValid(globalState)) =>
                 (restored' = NullContext /\ globalState' = NoRecord)]_vars

\* C23: no stored record with a phase tag outside the four phases, a duration
\* or remaining time that is not a number in its range, or a timestamp that
\* cannot be parsed is turned into a returned engine state: load() returns
\* null for it.
C23_MalformedRecordsRejected ==
    (lastCall = "restoreState" /\ globalState # NoRecord
        /\ ~StructurallyValid(globalState)) =>
        restored = NullContext

\* C24: updateStatistics(c, t) on a valid record sets sessionCount to c and
\* totalWorkTime to t and leaves every other property as stored, and a
\* following getStatistics() returns {c, t}; with no valid record it writes
\* nothing and getStatistics() returns zeros.
C24_UpdateStatisticsFrame ==
    [][/\ lastCall' = "updateStatistics" =>
             IF StructurallyValid(globalState)
             THEN /\ DOMAIN globalState' = DOMAIN globalState
                  /\ globalState'.sessionCount = statsArgs'.sessionCount
                  /\ globalState'.totalWorkTime = statsArgs'.totalWorkTime
                  /\ \A p \in DOMAIN globalState \ {"sessionCount", "totalWorkTime"} :
                         globalState'[p] = globalState[p]
             ELSE globalState' = globalState
       /\ lastCall' = "getStatistics" =>
             /\ globalState' = globalState
             /\ restored' =
                    IF StructurallyValid(globalState)
                    THEN [sessionCount |-> globalState.sessionCount,
                          totalWorkTime |-> globalState.totalWorkTime]
                    ELSE [sessionCount |-> 0, totalWorkTime |-> 0]]_vars


\* C28: when the 'timerComplete' listener of a finished work session calls
\* startRest() inside the notification, then after the completing tick has
\* returned the engine is Resting with the full rest duration and a scheduled
\* tick callback.
C28_ListenerStartedPhaseSurvives ==
    (lastOp = "tick" /\ listeners.timerComplete = StartsRest
        /\ Completions(events) = <<WORK_SESSION>>) =>
        /\ context.currentState = REST_PERIOD
        /\ context.remainingTime = context.restDuration * 60
        /\ Ticking

\* C29: with a listener that throws, no engine operation throws to its
\* caller, and the tick on an expired session still leaves the engine Idle
\* with ticking stopped, as it does with a listener that returns.
C29_FailingListenerIsolated ==
    (Throws \in {listeners.stateChange, listeners.timerComplete}) =>
        /\ ~thrown
        /\ (lastOp = "tick" /\ pre.context.currentState \in Running
               /\ pre.context.remainingTime = 0) =>
              (context.currentState = IDLE /\ Stopped)

\* C30: after dispose() no tick callback is scheduled and no listener is
\* registered; pause, reset and dispose called while ticking is stopped
\* (dispose twice included) raise no error and leave ticking stopped.
C30_DisposeStopsTicking ==
    /\ lastOp = "dispose" =>
          (Stopped /\ listeners = NoListeners /\ ~thrown)
    /\ (lastOp \in {"pause", "reset", "dispose"}
           /\ pre.intervalId = Null /\ pre.liveIntervals = 0) =>
          (Stopped /\ ~thrown)

\* C30 witness: dispose() called on a running engine.
C30_Witness ==
    /\ lastOp = "dispose"
    /\ pre.context.currentState \in Running
    /\ pre.liveIntervals = 1
    /\ Stopped
    /\ listeners = NoListeners


(***************************************************************************)
(* The running system over whole seconds: the engine ticking once a second *)
(* and the extension starting the next phase after a completion.           *)
(***************************************************************************)

\* The delay of the setTimeout() that starts the next phase.
AutoStartDelayMs == 2000

\* The defaults of the two settings that decide what follows a completion.
DefaultPolicy == [autoStartRest |-> TRUE, autoStartWork |-> FALSE]

NoTimeout == [call |-> "none", due |-> 0]

\* The system that wrote `record` for a running session, at that moment.
LiveAt(record) ==
    [e |-> [context |->
                [currentState |-> record.currentState,
                 remainingTime |-> record.remainingTime,
                 sessionDuration |-> record.sessionDuration,
                 restDuration |-> record.restDuration,
                 sessionStartTime |-> record.sessionStartTime,
                 pausedAt |-> Undefined],
            intervalId |-> Handle, liveIntervals |-> 1, events |-> <<>>,
            listeners |-> ReturningListeners, thrown |-> FALSE],
     timeout |-> NoTimeout]

\* One second of the running system: a pending setTimeout() comes a second
\* closer and starts its phase when due; otherwise the interval callback, if
\* scheduled, ticks, and a completion it notifies makes
\* handleTimerCompletion of the extension schedule the next phase.
LiveSecond(live, policy) ==
    LET ticked == tickOn([live.e EXCEPT !.events = <<>>])
        completed == Completions(ticked.events)
        scheduled ==
            IF completed = <<WORK_SESSION>> /\ policy.autoStartRest
            THEN [call |-> "startRest", due |-> AutoStartDelayMs \div MsPerSecond]
            ELSE IF completed = <<REST_PERIOD>> /\ policy.autoStartWork
            THEN [call |-> "startSession", due |-> AutoStartDelayMs \div MsPerSecond]
            ELSE NoTimeout
    IN IF live.timeout.call # "none"
       THEN IF live.timeout.due > 1
            THEN [live EXCEPT !.timeout.due = @ - 1]
            ELSE [e |-> IF live.timeout.call = "startRest"
                        THEN startRestOn(live.e) ELSE startSessionOn(live.e),
                  timeout |-> NoTimeout]
       ELSE IF live.e.liveIntervals > 0
       THEN [e |-> ticked, timeout |-> scheduled]
       ELSE live

RECURSIVE LiveAfter(_, _, _)
LiveAfter(live, policy, seconds) ==
    IF seconds = 0 THEN live
    ELSE LiveAfter(LiveSecond(live, policy), policy, seconds - 1)

\* C27: for every valid Working or Resting record and every elapsed time e,
\* the phase and remaining time load() returns are those the running timer
\* reaches after e one-second ticks from the saved state, the extension
\* starting the next phase at expiry.
C27_ReconciliationMatchesLive ==
    (Loaded /\ globalState.currentState \in Running /\ Elapsed >= 0) =>
        LET live == LiveAfter(LiveAt(globalState), DefaultPolicy, Elapsed).e
        IN /\ restored.currentState = live.context.currentState
           /\ restored.remainingTime = live.context.remainingTime


\* C25: on startup the stored record is loaded and reconciled and the engine
\* is seeded with the result: after activation a valid Paused record, or a
\* valid Working/Resting record with time left after the elapsed seconds, has
\* the engine in that phase with the reconciled remaining time; the engine
\* is Idle only when load() returns null or an Idle state.
C25_StartupSeedsEngine ==
    [][(~host.activated /\ host'.activated) =>
          LET record == globalState
              elapsed == (now - record.lastActiveTime) \div 1000
              left == record.remainingTime - elapsed
          IN /\ (StructurallyValid(record) /\ record.currentState = PAUSED) =>
                   /\ context'.currentState = PAUSED
                   /\ context'.remainingTime = record.remainingTime
             /\ (StructurallyValid(record) /\ record.currentState \in Running
                    /\ left > 0) =>
                   /\ context'.currentState = record.currentState
                   /\ context'.remainingTime = left
             /\ context'.currentState = IDLE =>
                   \/ ~StructurallyValid(record)
                   \/ record.currentState = IDLE
                   \/ record.currentState = REST_PERIOD /\ left <= 0
                   \/ record.currentState = WORK_SESSION
                         /\ -left >= record.restDuration * 60]_vars

\* C26: once the extension has handled an engine operation that changed the
\* engine state, and after dispose of the extension, the stored record has
\* the phase, the remaining time and both durations of the engine.
C26_RecordMirrorsEngine ==
    (host # NoHost /\ host.activated /\ lastOp # "constructor"
        /\ (pre.context # context \/ host.disposed)) =>
        /\ globalState # NoRecord
        /\ globalState.currentState = context.currentState
        /\ globalState.remainingTime = context.remainingTime
        /\ globalState.sessionDuration = context.sessionDuration
        /\ globalState.restDuration = context.restDuration


(***************************************************************************)
(* The interval callback and the bounds of the countdown.                  *)
(***************************************************************************)

\* C34: after any sequence of startSession, startRest, pause, resume, reset,
\* updateDurations and tick, the interval callback is scheduled exactly when
\* the phase is Working or Resting, and never more than one is scheduled: no
\* tick can come while the engine is Idle or Paused.
C34_TimerScheduledIffRunning ==
    /\ liveIntervals = (IF context.currentState \in Running THEN 1 ELSE 0)
    /\ (intervalId # Null) = (context.currentState \in Running)

\* The phase the countdown belongs to: the current one, or while paused the
\* one the engine was paused from.
CountedPhase ==
    IF context.currentState = PAUSED THEN pausedFrom ELSE context.currentState

\* C35: in every reachable state the remaining time is between 0 and 60
\* times the configured duration of the phase the timer is in or was paused
\* from, whatever pauses, resumes and duration updates came before.
C35_RemainingWithinDuration ==
    /\ context.remainingTime >= 0
    /\ CountedPhase = WORK_SESSION =>
           context.remainingTime <= context.sessionDuration * SecondsPerMinute
    /\ CountedPhase = REST_PERIOD =>
           context.remainingTime <= context.restDuration * SecondsPerMinute


(***************************************************************************)
(* The extension: delayed auto-start, dispose and the statistics.          *)
(***************************************************************************)

\* A callback of a setTimeout() of handleTimerCompletion runs in this step.
TimeoutFires == Len(host'.timeouts) < Len(host.timeouts)

\* C36: the auto-start the extension schedules two seconds after a
\* completion takes effect only if the engine is still Idle when it fires:
\* it never replaces, restarts or discards a session the user has started,
\* paused or resumed in the meantime.
C36_AutoStartOnlyWhenIdle ==
    [][(TimeoutFires /\ context.currentState # IDLE) => context' = context]_vars

\* C37: after dispose() of the extension the engine never ticks again and no
\* interval callback is live: nothing scheduled before the dispose restarts
\* the countdown.
C37_DisposedHostStaysStopped ==
    host.disposed => (liveIntervals = 0 /\ intervalId = Null)

\* The engine has run an operation in this step (when the step before left
\* no completion behind, which is all that is asked of it below).
EngineStep == pre' = Snapshot

\* The completions of work sessions notified in this step.
WorkCompletions ==
    IF EngineStep
    THEN Len(SelectSeq(Completions(events'), LAMBDA tag : tag = WORK_SESSION))
    ELSE 0

\* C39: the statistics of the extension count completed work sessions only:
\* while the extension lives, each completion notification tagged Working
\* adds exactly 1 to sessionCount and sessionDuration * 60 to totalWorkTime,
\* and nothing else (a Resting completion, pause, resume, reset, a start, a
\* tick) changes them, so neither ever decreases.
C39_StatisticsCountWorkOnly ==
    [][(host.activated /\ ~host.disposed) =>
          /\ host'.sessionCount = host.sessionCount + WorkCompletions
          /\ host'.totalWorkTime =
                 host.totalWorkTime
                 + WorkCompletions * host'.config.sessionDuration * SecondsPerMinute]_vars

\* A work session has completed and been counted, and a rest has completed
\* since.
C39_Witness ==
    /\ host.activated
    /\ host.sessionCount > 0
    /\ lastOp = "tick"
    /\ Completions(events) = <<REST_PERIOD>>


\* The last operation of the engine completed a work session and told the
\* extension, and no operation has run since.
WorkSessionCompleted ==
    /\ lastOp \in {"tick", "updateDurations"}
    /\ listeners = ExtensionListeners
    /\ Completions(events) = <<WORK_SESSION>>

\* C31: when a work session has counted down to its completion and
\* autoStartRest is set, the system eventually is Resting with restDuration *
\* 60 seconds left without any command of the user, provided the host runs
\* the delayed callback; the engine itself only goes to Idle at the
\* completion and starts no next phase.
C31_RestFollowsWork ==
    /\ [](WorkSessionCompleted => context.currentState = IDLE)
    /\ (WorkSessionCompleted /\ host.config.autoStartRest) ~>
           (/\ context.currentState = REST_PERIOD
            /\ context.remainingTime = context.restDuration * SecondsPerMinute)

\* The rest has been started after a counted work session with nothing left
\* pending.
C31_Witness ==
    /\ host.activated /\ ~host.disposed
    /\ host.config.autoStartRest
    /\ host.sessionCount > 0
    /\ host.awaiting = <<>> /\ host.timeouts = <<>>
    /\ lastOp = "startRest"
    /\ pre.lastOp = "tick"
    /\ pre.context.currentState = IDLE
    /\ context.currentState = REST_PERIOD


(***************************************************************************)
(* Reconciliation over a downtime split in two.                            *)
(***************************************************************************)

\* The second downtime is followed up to this many seconds.
MaxSecondDowntime == 125

\* What restoreState() returns for the valid record `persistedState` read
\* `timeDifference` seconds after it was written.
LoadAfter(persistedState, timeDifference) ==
    IF persistedState.currentState \in {IDLE, PAUSED}
    THEN createTimerContextFromPersisted(persistedState)
    ELSE ActiveContext(persistedState, timeDifference)

\* The order in which a session left alone goes through its phases.
PhaseOrder(state) ==
    CASE state = WORK_SESSION -> 0
      [] state = REST_PERIOD -> 1
      [] OTHER -> 2

\* C40: reconciliation composes over a downtime split in two: for a valid
\* record and whole seconds e1 and e2, loading after e1, saving what was
\* returned and loading again after e2 gives the phase and the remaining
\* time of one load after e1 + e2; so the phase of a running session only
\* moves forward through Working, Resting, Idle as the downtime grows.
C40_ReconciliationComposes ==
    (/\ Loaded
     /\ restored # NullContext
     /\ (now - globalState.lastActiveTime) % MsPerSecond = 0) =>
        \A e2 \in 0..MaxSecondDowntime :
            LET saved == PersistedState(restored, globalState.sessionCount,
                                        globalState.totalWorkTime, now)
                again == LoadAfter(saved, e2)
                once == LoadAfter(globalState, Elapsed + e2)
            IN /\ again.currentState = once.currentState
               /\ again.remainingTime = once.remainingTime
               /\ globalState.currentState \in Running =>
                      PhaseOrder(restored.currentState)
                          <= PhaseOrder(once.currentState)

\* A work session has been loaded as a rest period after a downtime that
\* went past its end.
C40_Witness ==
    /\ Loaded
    /\ restored # NullContext
    /\ (now - globalState.lastActiveTime) % MsPerSecond = 0
    /\ globalState.currentState = WORK_SESSION
    /\ Elapsed > globalState.remainingTime
    /\ restored.currentState = REST_PERIOD
    /\ restored.remainingTime < restored.restDuration * SecondsPerMinute


(***************************************************************************)
(* formatTime of the TimerManager and of the StatusBarController.  A       *)
(* string is the sequence of its characters.                               *)
(***************************************************************************)

\* Seconds up to this are formatted.
MaxFormatSeconds == 3700

\* formatTime wrapping the minutes at the hour
formatTime_WrapsMinutes(secs) ==
    LET minutes == (secs \div SecondsPerMinute) % 60
        remainingSeconds == secs % 60
    IN padStart(toString(minutes), 2, "0") \o <<":">>
          \o padStart(toString(remainingSeconds), 2, "0")

\* public formatTime(seconds) of the TimerManager, seconds >= 0
formatTime(secs) ==
    LET minutes == secs \div 60          \* Math.floor(seconds / 60)
        remainingSeconds == secs % 60
    IN padStart(toString(minutes), 2, "0") \o <<":">>
          \o padStart(toString(remainingSeconds), 2, "0")

\* Both formatTime are called with the same number of seconds.
display ==
    /\ formatted = NotFormatted
    /\ formatted' = [timerManager |-> formatTime(formatSeconds),
                     statusBar |-> StatusBar_formatTime(formatSeconds)]
    /\ UNCHANGED <<engineVars, storeVars, hostVars, held, snapshot,
                   formatSeconds>>

\* Another number of seconds is to be formatted.
another ==
    /\ formatted # NotFormatted
    /\ formatSeconds < MaxFormatSeconds
    /\ formatSeconds' = formatSeconds + 1
    /\ formatted' = NotFormatted
    /\ UNCHANGED <<engineVars, storeVars, hostVars, held, snapshot>>

FormatInit ==
    /\ Init
    /\ context = NewContext(MinDuration, MinDuration)

FormatNext == display \/ another

FormatSpec == FormatInit /\ [][FormatNext]_vars

\* The number a sequence of decimal digits stands for.
RECURSIVE Numeral(_)
Numeral(string) ==
    IF string = <<>> THEN 0
    ELSE LET last == string[Len(string)]
             digit == CHOOSE d \in 0..9 : Digits[d + 1] = last
         IN 10 * Numeral(SubSeq(string, 1, Len(string) - 1)) + digit

IsNumeral(string) ==
    /\ string # <<>>
    /\ \A i \in 1..Len(string) : \E d \in 0..9 : Digits[d + 1] = string[i]

\* C33: for every number of seconds s >= 0 the time is formatted as
\* floor(s / 60) padded with zeros to at least two digits, a colon, and
\* s mod 60 padded to two digits, the minutes not wrapped at 60 (00:00 for
\* 0, 00:59 for 59, 01:00 for 60, 61:01 for 3661); the formatter of the
\* engine and the one of the status bar return the same.
C33_FormatIsMinutesColonSeconds ==
    formatted # NotFormatted =>
        LET text == formatted.timerManager
            length == Len(text)
            minutes == SubSeq(text, 1, length - 3)
            secs == SubSeq(text, length - 1, length)
        IN /\ length >= 5
           /\ text[length - 2] = ":"
           /\ IsNumeral(minutes) /\ IsNumeral(secs)
           /\ Numeral(minutes) = formatSeconds \div 60
           /\ Numeral(secs) = formatSeconds % 60
           /\ Len(minutes) > 2 => minutes[1] # "0"
           /\ formatSeconds = 0 => text = <<"0", "0", ":", "0", "0">>
           /\ formatSeconds = 59 => text = <<"0", "0", ":", "5", "9">>
           /\ formatSeconds = 60 => text = <<"0", "1", ":", "0", "0">>
           /\ formatSeconds = 3661 => text = <<"6", "1", ":", "0", "1">>
           /\ formatted.statusBar = text

\* More than an hour has been formatted.
C33_Witness ==
    /\ formatSeconds = 3661
    /\ formatted # NotFormatted
    /\ formatted.timerManager = <<"6", "1", ":", "0", "1">>


(***************************************************************************)
(* getCurrentState() and what its caller does with the object it got.      *)
(***************************************************************************)

\* The caller looks at the engine when the countdown is full or in its last
\* seconds.
SnapshotTimes == Remainings(MinDuration)

\* getCurrentState handing out the context object of the engine itself
getCurrentState_ReturnsContext ==
    /\ held' = "context"
    /\ UNCHANGED <<engineVars, storeVars, hostVars, snapshot, formatSeconds,
                   formatted>>

\* public getCurrentState(): { ...this.context } is a new object with a copy
\* of every property of the context.
getCurrentState ==
    /\ context.remainingTime \in SnapshotTimes
    /\ snapshot' = [prop \in DOMAIN context |-> context[prop]]
    /\ held' = "snapshot"
    /\ UNCHANGED <<engineVars, storeVars, hostVars, formatSeconds, formatted>>

\* What the caller writes into the object it holds: a phase, a remaining
\* time, a duration, a timestamp.
Writes ==
    {<<"currentState", IDLE>>, <<"remainingTime", 0>>,
     <<"restDuration", MaxMinutes>>, <<"sessionStartTime", Undefined>>}

\* state[prop] = value, on the object the caller got from getCurrentState()
assign(prop, value) ==
    /\ held # "none"
    /\ IF held = "snapshot"
       THEN /\ snapshot' = [snapshot EXCEPT ![prop] = value]
            /\ UNCHANGED context
       ELSE /\ context' = [context EXCEPT ![prop] = value]
            /\ UNCHANGED snapshot
    /\ UNCHANGED <<intervalId, liveIntervals, events, lastOp, pre, run,
                   beforePause, pausedFrom, listeners, thrown>>
    /\ UNCHANGED <<storeVars, hostVars, held, formatSeconds, formatted>>

SnapshotInit ==
    /\ Init
    /\ context = NewContext(MinDuration, MinDuration)

SnapshotNext ==
    \/ startSession
    \/ startRest
    \/ pause
    \/ resume
    \/ reset
    \/ tick
    \/ getCurrentState
    \/ \E write \in Writes : assign(write[1], write[2])

SnapshotSpec == SnapshotInit /\ [][SnapshotNext]_vars

\* The object the caller's reference points at.
Held == IF held = "context" THEN context ELSE snapshot

\* The caller calls getCurrentState() or writes into what it returned.
CallerStep ==
    \/ getCurrentState
    \/ \E write \in Writes : assign(write[1], write[2])

\* C32: getCurrentState() returns a snapshot: a write into any property of
\* the returned object changes neither the phase, the remaining time, the
\* durations nor the timestamps of the engine, and no later operation of
\* the engine changes an object returned before.
C32_GetStateReturnsSnapshot ==
    [][/\ (\E write \in Writes : assign(write[1], write[2])) =>
              context' = context
       /\ (held # "none" /\ ~CallerStep) => Held' = Held]_vars

\* The caller holds an object it has changed, and the engine has moved on
\* since.
C32_Witness ==
    /\ held = "snapshot"
    /\ snapshot.currentState = WORK_SESSION
    /\ snapshot.remainingTime = 0
    /\ context.currentState = PAUSED
    /\ context.remainingTime > 0


(***************************************************************************)
(* The status bar and the phase of the engine.                             *)
(***************************************************************************)

\* The text and the command of the item are those of the phase.
Corresponds(item, phase) ==
    CASE phase = IDLE ->
            /\ item.text = <<"white dot", "Ready", "play button">>
            /\ item.command = "workSessionManager.startSession"
      [] phase = WORK_SESSION ->
            /\ Head(item.text) = "green dot"
            /\ item.command = "workSessionManager.pause"
      [] phase = REST_PERIOD ->
            /\ Head(item.text) = "blue dot"
            /\ item.command = "workSessionManager.pause"
      [] phase = PAUSED ->
            /\ Head(item.text) = "yellow dot"
            /\ item.command = "workSessionManager.resume"
      [] OTHER -> FALSE

\* C38: whenever no notification of the status bar is waiting for its
\* timeout, the text and the click command of the item are those of the
\* phase the engine is in.
C38_StatusBarShowsPhase ==
    (host.activated /\ statusBar.pending = <<>>)
        => Corresponds(statusBar.item, context.currentState)

====
